---- MODULE Spec2Model ----
(***************************************************************************)
(* redis-migrate: the copy engine (migrate/copy.go), the key filter and    *)
(* the generic-store adapter (migrate/source.go), the live-server source   *)
(* (redis/redis.go) and the prefixed destination (destination.go).         *)
(*                                                                         *)
(* Collaborators that are interfaces in the code (the raw store, the       *)
(* parser, the redis client, the destination) answer nondeterministically  *)
(* from small reply sets.  Every call Copy makes is appended to `log`;     *)
(* the log is restarted by each iter.Next() call of the Copy loop, so a    *)
(* state at pc = "next" holds the whole previous loop iteration.           *)
(***************************************************************************)
EXTENDS Integers, Sequences, FiniteSets, TLC

VARIABLES
    srcKind,    \* "kv": NewKeyValueSource, "server": NewServerSource
    includes,   \* keyPatternSource.includes (empty with excludes: unwrapped)
    excludes,   \* keyPatternSource.excludes
    kvErr,      \* keyValueIterator.err
    rowsRead,   \* reads of the raw store made so far
    ss,         \* serverKeyIterator: err, cursor, finished, keys, idx
    scans,      \* SCAN calls made so far
    recorder,   \* the CopyRecorder passed to Copy
    pc,         \* position of Copy
    cur,        \* Copy: key
    typ,        \* Copy: typ
    items,      \* Copy: the fetched items being ranged over
    idx,        \* Copy: position in items
    fetched,    \* what the source returned for the current key
    log,        \* calls made since the current loop iteration began
    owed,       \* items fetched without error and not yet written
    parsed,     \* the raw rows (by number) handed to the parser, in order
    storeErrs,  \* the errors the raw store or SCAN has signalled, in order
    pd,         \* prefixedDestination: prefix ("" before construction)
    pdRet       \* prefixedDestination: what the last call returned

vars == <<srcKind, includes, excludes, recorder, kvErr, rowsRead, ss, scans,
          pc, cur, typ, items, idx, fetched, log, owed, parsed, storeErrs,
          pd, pdRet>>
cfgVars == <<srcKind, includes, excludes, recorder>>
iterVars == <<kvErr, rowsRead, ss, scans, parsed, storeErrs>>
prefixVars == <<pd, pdRet>>

(* ------------------------------ bounds -------------------------------- *)
MaxRows == 3
MaxScans == 3
MaxItems == 3
MaxPats == 2

(* ------------------------------ values -------------------------------- *)
Nil == "nil"
RedisNil == "redis: nil"
Errs == {"e1", "e2"}
Keys == {"a", "b"}
Vals == {"x", "y"}

SourceKeyTypeSkip == ""
SourceKeyTypeString == "string"
SourceKeyTypeHash == "hash"
SourceKeyTypeList == "list"
SourceKeyTypeSet == "set"
SourceKeyTypeZSet == "zset"
ValueTypes == {SourceKeyTypeString, SourceKeyTypeHash, SourceKeyTypeList,
               SourceKeyTypeSet, SourceKeyTypeZSet}
OtherType == "stream"

SeqsUpTo(S, n) == UNION {[1..k -> S] : k \in 0..n}
DistinctSeqs(S, n) ==
    {s \in SeqsUpTo(S, n) : \A i, j \in 1..Len(s) : s[i] = s[j] => i = j}

KeyValueItem(k, t, sv, hf, hv, li, sm, zm, zs) ==
    [Key |-> k, Type |-> t, StringValue |-> sv, HashField |-> hf,
     HashFieldValue |-> hv, ListItem |-> li, SetMember |-> sm,
     ZSetMember |-> zm, ZSetScore |-> zs]
ZeroItem == KeyValueItem("", "", "", "", "", "", "", "", 0)

\* An element fetched from the source: SourceHashItem{Key, Value},
\* SourceZSetMember{Key, Score}, a list item or set member (field), or a
\* string payload (value).
Item(f, v, s) == [field |-> f, value |-> v, score |-> s]

\* A SourceKey handle.  wrapped: the handle is a keyPatternFilteredKey
\* around the inner handle.
SourceKey(kind, k, item, wrapped) ==
    [kind |-> kind, key |-> k, item |-> item, wrapped |-> wrapped]
NoKey == SourceKey("nil", "", ZeroItem, FALSE)

Ev(op, k, f, v, s, t, e) ==
    [op |-> op, key |-> k, field |-> f, value |-> v, score |-> s,
     typ |-> t, err |-> e]

(* ----------------------- the collaborators' replies ------------------- *)
\* KeyValueIterator.Next(): a raw row, the end of the stream ("" key), or
\* an error.  After MaxRows rows the store has no further row.
RawKeys == {"ra", "rb"}
StoreReplies(n) ==
    {[key |-> "", val |-> "", err |-> Nil]}
    \cup {[key |-> "", val |-> "", err |-> e] : e \in Errs}
    \cup (IF n < MaxRows
          THEN {[key |-> k, val |-> "raw", err |-> Nil] : k \in RawKeys}
          ELSE {})

\* SourceKeyParser.Parse(): an item whose populated field matches its type,
\* or an error.
ParsedItems ==
    {KeyValueItem(k, SourceKeyTypeString, v, "", "", "", "", "", 0) :
        k \in Keys, v \in Vals}
    \cup {KeyValueItem(k, SourceKeyTypeHash, "", "f", v, "", "", "", 0) :
        k \in Keys, v \in Vals}
    \cup {KeyValueItem(k, SourceKeyTypeList, "", "", "", v, "", "", 0) :
        k \in Keys, v \in Vals}
    \cup {KeyValueItem(k, SourceKeyTypeSet, "", "", "", "", v, "", 0) :
        k \in Keys, v \in Vals}
    \cup {KeyValueItem(k, SourceKeyTypeZSet, "", "", "", "", "", v, 1) :
        k \in Keys, v \in Vals}
    \cup {KeyValueItem(k, t, "", "", "", "", "", "", 0) :
        k \in Keys, t \in {SourceKeyTypeSkip, OtherType}}
ParseReplies ==
    {[item |-> it, err |-> Nil] : it \in ParsedItems}
    \cup {[item |-> ZeroItem, err |-> "parse"]}

\* client.Scan(): a page of keys with the next cursor, or an error.  The
\* MaxScans-th page is the last one the server has.
ScanReplies(n) ==
    {[keys |-> ks, cursor |-> c, err |-> Nil] :
        ks \in DistinctSeqs(Keys, Cardinality(Keys)),
        c \in IF n + 1 < MaxScans THEN {0, 7} ELSE {0}}
    \cup {[keys |-> <<>>, cursor |-> 0, err |-> e] : e \in Errs}

\* client.Type(): the server's type name, or an error.
TypeReplies ==
    {[res |-> t, err |-> Nil] : t \in ValueTypes \cup {"none", OtherType}}
    \cup {[res |-> "", err |-> e] : e \in Errs}

\* client.Get / HGetAll / LRange / SMembers / ZRangeWithScores.
HashItems == {Item("f", "x", 0), Item("g", "y", 0)}
ZSetItems == {Item("m1", "", 1), Item("m2", "", 2)}
PlainItems == {Item(v, "", 0) : v \in Vals}
FetchReplies(t) ==
    IF t = SourceKeyTypeString
    THEN {[items |-> <<Item("", v, 0)>>, err |-> Nil] : v \in Vals}
         \cup {[items |-> <<Item("", "", 0)>>, err |-> e] :
                 e \in Errs \cup {RedisNil}}
    ELSE {[items |-> s, err |-> Nil] :
             s \in CASE t = SourceKeyTypeHash -> DistinctSeqs(HashItems, MaxItems)
                     [] t = SourceKeyTypeZSet -> DistinctSeqs(ZSetItems, MaxItems)
                     [] t = SourceKeyTypeSet -> DistinctSeqs(PlainItems, MaxItems)
                     [] OTHER -> SeqsUpTo(PlainItems, MaxItems)}
         \cup {[items |-> <<>>, err |-> e] : e \in Errs \cup {RedisNil}}

\* regexp.MatchString: a compiled pattern is the set of keys it matches.
Patterns == SUBSET Keys
MatchString(p, key) == key \in p

(* ------------------- migrate/source.go: the adapter -------------------- *)
\* Mutant: the recorded store error is not consulted before reading.
keyValueIteratorNextNoLatch(kerr, sr, pr) ==
    IF sr.err # Nil
    THEN [kerr |-> sr.err, key |-> NoKey, err |-> Nil,
          read |-> TRUE, parsed |-> FALSE]
    ELSE IF sr.key = ""
    THEN [kerr |-> kerr, key |-> NoKey, err |-> Nil,
          read |-> TRUE, parsed |-> FALSE]
    ELSE IF pr.err # Nil
    THEN [kerr |-> kerr, key |-> NoKey, err |-> pr.err,
          read |-> TRUE, parsed |-> TRUE]
    ELSE [kerr |-> kerr, key |-> SourceKey("kv", pr.item.Key, pr.item, FALSE),
          err |-> Nil, read |-> TRUE, parsed |-> TRUE]

\* Mutant: a parse error is returned and latched as well.
keyValueIteratorNextLatchParse(kerr, sr, pr) ==
    IF kerr # Nil
    THEN [kerr |-> kerr, key |-> NoKey, err |-> Nil,
          read |-> FALSE, parsed |-> FALSE]
    ELSE IF sr.err # Nil
    THEN [kerr |-> sr.err, key |-> NoKey, err |-> Nil,
          read |-> TRUE, parsed |-> FALSE]
    ELSE IF sr.key = ""
    THEN [kerr |-> kerr, key |-> NoKey, err |-> Nil,
          read |-> TRUE, parsed |-> FALSE]
    ELSE IF pr.err # Nil
    THEN [kerr |-> pr.err, key |-> NoKey, err |-> pr.err,
          read |-> TRUE, parsed |-> TRUE]
    ELSE [kerr |-> kerr, key |-> SourceKey("kv", pr.item.Key, pr.item, FALSE),
          err |-> Nil, read |-> TRUE, parsed |-> TRUE]

\* Mutant: a parse error is swallowed the way a store error is.
keyValueIteratorNextSwallowParse(kerr, sr, pr) ==
    IF kerr # Nil
    THEN [kerr |-> kerr, key |-> NoKey, err |-> Nil,
          read |-> FALSE, parsed |-> FALSE]
    ELSE IF sr.err # Nil
    THEN [kerr |-> sr.err, key |-> NoKey, err |-> Nil,
          read |-> TRUE, parsed |-> FALSE]
    ELSE IF sr.key = ""
    THEN [kerr |-> kerr, key |-> NoKey, err |-> Nil,
          read |-> TRUE, parsed |-> FALSE]
    ELSE IF pr.err # Nil
    THEN [kerr |-> pr.err, key |-> NoKey, err |-> Nil,
          read |-> TRUE, parsed |-> TRUE]
    ELSE [kerr |-> kerr, key |-> SourceKey("kv", pr.item.Key, pr.item, FALSE),
          err |-> Nil, read |-> TRUE, parsed |-> TRUE]

\* keyValueIterator.Next.  sr: what the raw store answers if it is read,
\* pr: what the parser answers if it is called.
keyValueIteratorNext(kerr, sr, pr) ==
    IF kerr # Nil
    THEN [kerr |-> kerr, key |-> NoKey, err |-> Nil,
          read |-> FALSE, parsed |-> FALSE]
    ELSE IF sr.err # Nil
    THEN [kerr |-> sr.err, key |-> NoKey, err |-> Nil,
          read |-> TRUE, parsed |-> FALSE]
    ELSE IF sr.key = ""
    THEN [kerr |-> kerr, key |-> NoKey, err |-> Nil,
          read |-> TRUE, parsed |-> FALSE]
    ELSE IF pr.err # Nil
    THEN [kerr |-> kerr, key |-> NoKey, err |-> pr.err,
          read |-> TRUE, parsed |-> TRUE]
    ELSE [kerr |-> kerr, key |-> SourceKey("kv", pr.item.Key, pr.item, FALSE),
          err |-> Nil, read |-> TRUE, parsed |-> TRUE]

\* keyValueIterator.Error
keyValueIteratorError(kerr) == kerr

\* keyValueSourceKey.Type
keyValueSourceKeyType(k) == [typ |-> k.item.Type, err |-> Nil]

\* `item, _ := k.(keyValueSourceKey)`: the assertion succeeds only on a
\* handle whose dynamic type is keyValueSourceKey; otherwise item is the
\* zero value.
AssertKeyValueSourceKey(k) ==
    IF k.kind = "kv" /\ ~k.wrapped THEN k.item ELSE ZeroItem

\* Mutant: LItems returns the item's set member.
keyValueSourceFetchListFromSet(k, t) ==
    LET it == AssertKeyValueSourceKey(k) IN
    [err |-> Nil,
     items |->
        CASE t = SourceKeyTypeString -> <<Item("", it.StringValue, 0)>>
          [] t = SourceKeyTypeHash -> <<Item(it.HashField, it.HashFieldValue, 0)>>
          [] t = SourceKeyTypeList -> <<Item(it.SetMember, "", 0)>>
          [] t = SourceKeyTypeSet -> <<Item(it.SetMember, "", 0)>>
          [] OTHER -> <<Item(it.ZSetMember, "", it.ZSetScore)>>]

\* keyValueSource.Get / HItems / LItems / SMembers / ZMembers
keyValueSourceFetch(k, t) ==
    LET it == AssertKeyValueSourceKey(k) IN
    [err |-> Nil,
     items |->
        CASE t = SourceKeyTypeString -> <<Item("", it.StringValue, 0)>>
          [] t = SourceKeyTypeHash -> <<Item(it.HashField, it.HashFieldValue, 0)>>
          [] t = SourceKeyTypeList -> <<Item(it.ListItem, "", 0)>>
          [] t = SourceKeyTypeSet -> <<Item(it.SetMember, "", 0)>>
          [] OTHER -> <<Item(it.ZSetMember, "", it.ZSetScore)>>]

(* ------------------- migrate/source.go: the key filter ----------------- *)
\* `for _, e := range pats { if e.MatchString(key) { return ... } }`
RECURSIVE MatchesFrom(_, _, _)
MatchesFrom(pats, key, i) ==
    IF i > Len(pats) THEN FALSE
    ELSE IF MatchString(pats[i], key) THEN TRUE
    ELSE MatchesFrom(pats, key, i + 1)

\* Mutant: the include list is consulted before the exclude list.
keyPatternFilteredKeyTypeIncludeFirst(inc, exc, key, under) ==
    IF under.err # Nil \/ under.typ = SourceKeyTypeSkip THEN under
    ELSE IF Len(inc) > 0 /\ MatchesFrom(inc, key, 1)
    THEN [typ |-> under.typ, err |-> Nil]
    ELSE IF Len(exc) > 0 /\ MatchesFrom(exc, key, 1)
    THEN [typ |-> SourceKeyTypeSkip, err |-> Nil]
    ELSE IF Len(inc) > 0
    THEN [typ |-> SourceKeyTypeSkip, err |-> Nil]
    ELSE [typ |-> under.typ, err |-> Nil]

\* Mutant: a key matching no include pattern falls through to the real type.
keyPatternFilteredKeyTypeNoIncludeSkip(inc, exc, key, under) ==
    IF under.err # Nil \/ under.typ = SourceKeyTypeSkip THEN under
    ELSE IF Len(exc) > 0 /\ MatchesFrom(exc, key, 1)
    THEN [typ |-> SourceKeyTypeSkip, err |-> Nil]
    ELSE [typ |-> under.typ, err |-> Nil]

\* keyPatternFilteredKey.Type.  under: what the wrapped key's Type() gave.
keyPatternFilteredKeyType(inc, exc, key, under) ==
    IF under.err # Nil \/ under.typ = SourceKeyTypeSkip THEN under
    ELSE IF Len(exc) > 0 /\ MatchesFrom(exc, key, 1)
    THEN [typ |-> SourceKeyTypeSkip, err |-> Nil]
    ELSE IF Len(inc) > 0
    THEN IF MatchesFrom(inc, key, 1)
         THEN [typ |-> under.typ, err |-> Nil]
         ELSE [typ |-> SourceKeyTypeSkip, err |-> Nil]
    ELSE [typ |-> under.typ, err |-> Nil]

\* NewKeyPatternSource: with both lists empty the source is not wrapped.
Filtered(inc, exc) == ~(Len(inc) = 0 /\ Len(exc) = 0)

\* keyPatternIterator.Next.  r: what the wrapped iterator's Next() gave.
keyPatternIteratorNext(r) ==
    IF r.key = NoKey \/ r.err # Nil THEN r
    ELSE [r EXCEPT !.key = [r.key EXCEPT !.wrapped = TRUE]]

(* ------------------- redis/redis.go: the server source ----------------- *)
\* serverKeyIterator.fetch.  reply: what SCAN answers if it is sent.
serverKeyIteratorFetch(it, reply) ==
    IF it.err # Nil THEN it
    ELSE IF reply.err # Nil
    THEN [it EXCEPT !.finished = TRUE, !.err = reply.err]
    ELSE [it EXCEPT !.keys = reply.keys, !.idx = 0, !.cursor = reply.cursor,
                    !.finished = (reply.cursor <= 0 \/ Len(reply.keys) = 0)]

\* serverKeyIterator.Next
serverKeyIteratorNext(it, reply) ==
    LET fetching == ~it.finished /\ it.idx >= Len(it.keys)
        it1 == IF fetching THEN serverKeyIteratorFetch(it, reply) ELSE it
    IN IF it1.idx >= Len(it1.keys)
       THEN [it |-> it1, key |-> NoKey, err |-> Nil,
             scanned |-> fetching /\ it.err = Nil]
       ELSE [it |-> [it1 EXCEPT !.idx = it1.idx + 1],
             key |-> SourceKey("server", it1.keys[it1.idx + 1], ZeroItem, FALSE),
             err |-> Nil, scanned |-> fetching /\ it.err = Nil]

\* serverKeyIterator.Error
serverKeyIteratorError(it) == it.err

\* serverSourceKey.Type
serverSourceKeyType(reply) ==
    IF reply.err # Nil THEN [typ |-> "", err |-> reply.err]
    ELSE IF reply.res \in ValueTypes THEN [typ |-> reply.res, err |-> Nil]
    ELSE [typ |-> "", err |-> "unsupported key type"]

\* serverSource.allowNil
allowNil(err) == IF err = RedisNil THEN Nil ELSE err

\* serverSource.Get / HItems / LItems / SMembers / ZMembers
serverSourceFetch(t, reply) ==
    LET err == allowNil(reply.err) IN
    IF t = SourceKeyTypeString THEN [items |-> reply.items, err |-> err]
    ELSE IF err # Nil THEN [items |-> <<>>, err |-> err]
    ELSE [items |-> reply.items, err |-> Nil]

\* Mutant: the push appends at the tail (RPUSH).
serverDestinationRPush(list, k, reply) ==
    IF reply = Nil THEN Append(list, k) ELSE list

\* serverDestination.LPush: client.LPush(l, k), the server's LPUSH, puts k
\* at the head of the list stored at l; a command answered by an error
\* leaves the list as it was.
serverDestinationLPush(list, k, reply) ==
    IF reply = Nil THEN <<k>> \o list ELSE list

(* ------------------------ migrate/copy.go: Copy ------------------------ *)
\* What the destination (an interface) and the raw store's iterator Close
\* (an interface) may answer.
DstReplies == {Nil, "e1"}
CloseReplies(kind) == IF kind = "kv" THEN {Nil, "e1"} ELSE {Nil}

\* recorder.Error(message, err, kvs...), recorder.Key(typ, key, item),
\* recorder.Finish()
RecError(msg, err, t, k, sub) == Ev("Error", k, sub, msg, 0, t, err)
RecKey(t, k, sub) == Ev("Key", k, sub, "", 0, t, Nil)
RecFinish == Ev("Finish", "", "", "", 0, "", Nil)

\* The recorders Copy is run with: the one NewStdCopyRecorder returns, and
\* any other implementation of CopyRecorder (one that accepts every call).
Recorders == {"std", "other"}

\* stdCopyRecorder.Error: line 40 calls err.Error(), which panics on a nil
\* err before anything is written out.
stdCopyRecorderError(err) == IF err = Nil THEN "panic" ELSE "line"

\* recorder.Error(message, err, ...) as Copy sees it: the call, and the
\* panic if the recorder raises one.
RecorderPanics(rec, err) == rec = "std" /\ stdCopyRecorderError(err) = "panic"
Panic == Ev("panic", "", "", "", 0, "", Nil)

\* src.Iterator().Next() of the configured source: the adapter's or the
\* server's iterator, behind keyPatternIterator when the source is wrapped.
SourceIteratorNext(kind, filt, kerr, it, sr, pr, sc) ==
    LET inner ==
          IF kind = "kv"
          THEN LET r == keyValueIteratorNext(kerr, sr, pr) IN
               [kerr |-> r.kerr, it |-> it, key |-> r.key, err |-> r.err,
                read |-> r.read, parsed |-> r.parsed, scanned |-> FALSE]
          ELSE LET r == serverKeyIteratorNext(it, sc) IN
               [kerr |-> kerr, it |-> r.it, key |-> r.key, err |-> r.err,
                read |-> FALSE, parsed |-> FALSE, scanned |-> r.scanned]
    IN IF filt THEN keyPatternIteratorNext(inner) ELSE inner

\* iter.Error() of the configured source (keyPatternIterator embeds it).
SourceIteratorError(kind, kerr, it) ==
    IF kind = "kv" THEN keyValueIteratorError(kerr)
    ELSE serverKeyIteratorError(it)

\* key.Type() of a handle.  reply: what the server answers if it is asked.
UnderlyingType(k, reply) ==
    IF k.kind = "kv" THEN keyValueSourceKeyType(k)
    ELSE serverSourceKeyType(reply)
SourceKeyType(k, inc, exc, reply) ==
    IF k.wrapped
    THEN keyPatternFilteredKeyType(inc, exc, k.key, UnderlyingType(k, reply))
    ELSE UnderlyingType(k, reply)

\* src.Get / HItems / LItems / SMembers / ZMembers of the configured source
\* (keyPatternSource embeds the wrapped source's accessors).
SourceFetch(kind, k, t, reply) ==
    IF kind = "kv" THEN keyValueSourceFetch(k, t)
    ELSE serverSourceFetch(t, reply)

\* The messages of Copy's recorder.Error calls after a failed fetch and a
\* failed write, per case of the switch.
FetchFailedMessage(t) ==
    CASE t = SourceKeyTypeString -> "get string key value failed"
      [] t = SourceKeyTypeHash -> "get hash items failed"
      [] t = SourceKeyTypeList -> "get list items failed"
      [] t = SourceKeyTypeSet -> "get set members failed"
      [] OTHER -> "get zset members failed"
WriteFailedMessage(t) ==
    CASE t = SourceKeyTypeString -> "set string key value failed"
      [] t = SourceKeyTypeHash -> "set hash item failed"
      [] t = SourceKeyTypeList -> "push list item failed"
      [] t = SourceKeyTypeSet -> "add set member failed"
      [] OTHER -> "add zset member failed"

\* Mutant: the list case writes through the set operation.
DestinationOpListAsSet(t) ==
    CASE t = SourceKeyTypeString -> "Set"
      [] t = SourceKeyTypeHash -> "HSet"
      [] t = SourceKeyTypeList -> "SAdd"
      [] t = SourceKeyTypeSet -> "SAdd"
      [] OTHER -> "ZAdd"

\* The destination operation of each case of Copy's switch.
DestinationOp(t) ==
    CASE t = SourceKeyTypeString -> "Set"
      [] t = SourceKeyTypeHash -> "HSet"
      [] t = SourceKeyTypeList -> "LPush"
      [] t = SourceKeyTypeSet -> "SAdd"
      [] OTHER -> "ZAdd"

\* The calls one iter.Next() makes, as they enter the log.
NextCalls(r, sr, pr, sc) ==
    (IF r.read
     THEN <<Ev("store.Next", sr.key, "", sr.val, rowsRead + 1, "", sr.err)>>
     ELSE <<>>)
    \o (IF r.parsed
        THEN <<Ev("Parse", sr.key, "", sr.val, rowsRead + 1, "", pr.err)>>
        ELSE <<>>)
    \o (IF r.scanned THEN <<Ev("Scan", "", "", "", sc.cursor, "", sc.err)>>
        ELSE <<>>)
    \o <<Ev("iter.Next", r.key.key, "", r.key.kind, 0, "", r.err)>>

\* The iterator's state after one iter.Next(), with the bookkeeping of what
\* its collaborators were asked.
IteratorStep(r, sr, sc) ==
    /\ kvErr' = r.kerr
    /\ ss' = r.it
    /\ rowsRead' = IF r.read /\ sr.err = Nil /\ sr.key # ""
                   THEN rowsRead + 1 ELSE rowsRead
    /\ parsed' = IF r.parsed THEN Append(parsed, rowsRead + 1) ELSE parsed
    /\ scans' = IF r.scanned THEN scans + 1 ELSE scans
    /\ storeErrs' = IF r.read /\ sr.err # Nil THEN Append(storeErrs, sr.err)
                    ELSE IF r.scanned /\ sc.err # Nil THEN Append(storeErrs, sc.err)
                    ELSE storeErrs

\* Copy, lines 76-83: iter.Next().
CopyNextStep(r, sr, pr, sc) ==
    /\ IteratorStep(r, sr, sc)
    /\ IF r.err # Nil
       THEN /\ log' = NextCalls(r, sr, pr, sc)
                        \o <<RecError("iterate next key failed", r.err, "", "", "")>>
            /\ pc' = "next"
            /\ cur' = NoKey
       ELSE IF r.key = NoKey
       THEN /\ log' = NextCalls(r, sr, pr, sc)
            /\ pc' = "itererr"
            /\ cur' = NoKey
       ELSE /\ log' = NextCalls(r, sr, pr, sc)
            /\ pc' = "type"
            /\ cur' = r.key
    /\ typ' = ""
    /\ items' = <<>>
    /\ idx' = 0
    /\ fetched' = <<>>
    /\ UNCHANGED <<cfgVars, owed, prefixVars>>

\* The collaborators the configured source does not have give no reply.
NoStoreReply == [key |-> "", val |-> "", err |-> Nil]
NoParseReply == [item |-> ZeroItem, err |-> Nil]
NoScanReply == [keys |-> <<>>, cursor |-> 0, err |-> Nil]

CopyNext ==
    /\ pc = "next"
    /\ \E sr \in IF srcKind = "kv" THEN StoreReplies(rowsRead) ELSE {NoStoreReply},
          pr \in IF srcKind = "kv" THEN ParseReplies ELSE {NoParseReply},
          sc \in IF srcKind = "kv" THEN {NoScanReply} ELSE ScanReplies(scans) :
         CopyNextStep(
            SourceIteratorNext(srcKind, Filtered(includes, excludes),
                               kvErr, ss, sr, pr, sc),
            sr, pr, sc)

\* Copy, lines 85-89: key.Type().
CopyTypeStep(t, under) ==
    LET calls ==
            <<Ev("key.Type", cur.key, "", "", 0, under.typ, under.err)>>
            \o (IF cur.wrapped
                THEN <<Ev("filter.Type", cur.key, "", "", 0, t.typ, t.err)>>
                ELSE <<>>)
    IN
    /\ IF t.err # Nil
       THEN /\ log' = log \o calls
                        \o <<RecError("retrieve key type failed", t.err, "", cur.key, "")>>
            /\ pc' = "next"
            /\ typ' = ""
       ELSE /\ log' = log \o calls
            /\ pc' = "switch"
            /\ typ' = t.typ
    /\ UNCHANGED <<cfgVars, iterVars, cur, items, idx, fetched, owed, prefixVars>>

CopyType ==
    /\ pc = "type"
    /\ \E reply \in TypeReplies :
         CopyTypeStep(SourceKeyType(cur, includes, excludes, reply),
                      UnderlyingType(cur, reply))

\* Mutant: recorder.Key is called once for the key before the switch, ahead
\* of the fetch, as well as for every item.
CopySwitchFetchKeyFirst(f) ==
    IF typ \notin ValueTypes
    THEN /\ log' = Append(log, RecError("unsupported key type", Nil, typ, cur.key, ""))
                    \o (IF RecorderPanics(recorder, Nil) THEN <<Panic>> ELSE <<>>)
         /\ pc' = IF RecorderPanics(recorder, Nil) THEN "unwind" ELSE "next"
         /\ UNCHANGED <<items, idx, fetched, owed>>
    ELSE IF f.err # Nil
    THEN /\ log' = log \o <<RecKey(typ, cur.key, ""),
                            Ev("Fetch", cur.key, "", "", 0, typ, f.err),
                            RecError(FetchFailedMessage(typ), f.err, typ, cur.key, "")>>
         /\ pc' = "next"
         /\ UNCHANGED <<items, idx, fetched, owed>>
    ELSE /\ log' = log \o <<RecKey(typ, cur.key, ""),
                            Ev("Fetch", cur.key, "", "", Len(f.items), typ, Nil)>>
         /\ items' = f.items
         /\ fetched' = f.items
         /\ idx' = 1
         /\ owed' = owed + Len(f.items)
         /\ pc' = IF Len(f.items) = 0 THEN "next" ELSE "items"

\* Copy, lines 91-158, the cases other than Skip: the default case and
\* the fetch of the key's value(s).
CopySwitchFetch(f) ==
    IF typ \notin ValueTypes
    THEN /\ log' = Append(log, RecError("unsupported key type", Nil, typ, cur.key, ""))
                    \o (IF RecorderPanics(recorder, Nil) THEN <<Panic>> ELSE <<>>)
         /\ pc' = IF RecorderPanics(recorder, Nil) THEN "unwind" ELSE "next"
         /\ UNCHANGED <<items, idx, fetched, owed>>
    ELSE IF f.err # Nil
    THEN /\ log' = log \o <<Ev("Fetch", cur.key, "", "", 0, typ, f.err),
                            RecError(FetchFailedMessage(typ), f.err, typ, cur.key, "")>>
         /\ pc' = "next"
         /\ UNCHANGED <<items, idx, fetched, owed>>
    ELSE /\ log' = Append(log, Ev("Fetch", cur.key, "", "", Len(f.items), typ, Nil))
         /\ items' = f.items
         /\ fetched' = f.items
         /\ idx' = 1
         /\ owed' = owed + Len(f.items)
         /\ pc' = IF Len(f.items) = 0 THEN "next" ELSE "items"

\* Mutant: the key-start notification is made before the switch, so a
\* Skip key is reported too.
CopySwitchStepKeyFirst(f) ==
    IF typ = SourceKeyTypeSkip
    THEN /\ log' = Append(log, RecKey(typ, cur.key, ""))
         /\ pc' = "next"
         /\ UNCHANGED <<items, idx, fetched, owed>>
    ELSE CopySwitchFetch(f)

\* Copy, lines 91-158: the switch (case SourceKeyTypeSkip is empty).
CopySwitchStep(f) ==
    IF typ = SourceKeyTypeSkip
    THEN /\ pc' = "next"
         /\ UNCHANGED <<log, items, idx, fetched, owed>>
    ELSE CopySwitchFetch(f)

CopySwitch ==
    /\ pc = "switch"
    /\ \E reply \in FetchReplies(typ) :
         CopySwitchStep(SourceFetch(srcKind, cur, typ, reply))
    /\ UNCHANGED <<cfgVars, iterVars, cur, typ, prefixVars>>

\* Mutant: a failed write ends the key's loop.
CopyItemStepBreakOnError(werr) ==
    LET it == items[idx]
        sub == IF typ = SourceKeyTypeString THEN "" ELSE it.field
        calls ==
            <<RecKey(typ, cur.key, sub),
              Ev(DestinationOp(typ), cur.key, it.field, it.value, it.score, "", werr)>>
            \o (IF werr # Nil
                THEN <<RecError(WriteFailedMessage(typ), werr, typ, cur.key, sub)>>
                ELSE <<>>)
    IN
    /\ log' = log \o calls
    /\ owed' = owed - 1
    /\ idx' = idx + 1
    /\ pc' = IF idx + 1 > Len(items) \/ werr # Nil THEN "next" ELSE "items"

\* Mutant: a failed write is tried again.
CopyItemStepRetry(werr) ==
    LET it == items[idx]
        sub == IF typ = SourceKeyTypeString THEN "" ELSE it.field
        calls ==
            <<RecKey(typ, cur.key, sub),
              Ev(DestinationOp(typ), cur.key, it.field, it.value, it.score, "", werr)>>
            \o (IF werr # Nil
                THEN <<RecError(WriteFailedMessage(typ), werr, typ, cur.key, sub)>>
                ELSE <<>>)
    IN
    /\ log' = log \o calls
    /\ owed' = IF werr # Nil THEN owed ELSE owed - 1
    /\ idx' = IF werr # Nil THEN idx ELSE idx + 1
    /\ pc' = IF werr = Nil /\ idx + 1 > Len(items) THEN "next" ELSE "items"

\* Mutant: recorder.Key is called for the first item of a key only.
CopyItemStepKeyOnce(werr) ==
    LET it == items[idx]
        sub == IF typ = SourceKeyTypeString THEN "" ELSE it.field
        calls ==
            (IF idx = 1 THEN <<RecKey(typ, cur.key, sub)>> ELSE <<>>)
            \o <<Ev(DestinationOp(typ), cur.key, it.field, it.value, it.score, "", werr)>>
            \o (IF werr # Nil
                THEN <<RecError(WriteFailedMessage(typ), werr, typ, cur.key, sub)>>
                ELSE <<>>)
    IN
    /\ log' = log \o calls
    /\ owed' = owed - 1
    /\ idx' = idx + 1
    /\ pc' = IF idx + 1 > Len(items) THEN "next" ELSE "items"

\* Copy: one item of the key: recorder.Key, the destination write, and
\* recorder.Error if the write failed (lines 100-104, 111-117, 124-130,
\* 137-143, 150-156).
CopyItemStep(werr) ==
    LET it == items[idx]
        sub == IF typ = SourceKeyTypeString THEN "" ELSE it.field
        calls ==
            <<RecKey(typ, cur.key, sub),
              Ev(DestinationOp(typ), cur.key, it.field, it.value, it.score, "", werr)>>
            \o (IF werr # Nil
                THEN <<RecError(WriteFailedMessage(typ), werr, typ, cur.key, sub)>>
                ELSE <<>>)
    IN
    /\ log' = log \o calls
    /\ owed' = owed - 1
    /\ idx' = idx + 1
    /\ pc' = IF idx + 1 > Len(items) THEN "next" ELSE "items"

CopyItem ==
    /\ pc = "items"
    /\ \E werr \in DstReplies : CopyItemStep(werr)
    /\ UNCHANGED <<cfgVars, iterVars, cur, typ, items, fetched, prefixVars>>

\* Mutant: the iterator's terminal error is read and dropped.
CopyIterErrorDropped ==
    /\ pc = "itererr"
    /\ LET err == SourceIteratorError(srcKind, kvErr, ss) IN
       log' = log \o <<Ev("iter.Error", "", "", "", 0, "", err)>>
    /\ pc' = "finish"
    /\ UNCHANGED <<cfgVars, iterVars, cur, typ, items, idx, fetched, owed,
                   prefixVars>>

\* Copy, lines 160-163: iter.Error().
CopyIterError ==
    /\ pc = "itererr"
    /\ LET err == SourceIteratorError(srcKind, kvErr, ss) IN
       log' = log \o <<Ev("iter.Error", "", "", "", 0, "", err)>>
                  \o (IF err # Nil
                      THEN <<RecError("iterator errors", err, "", "", "")>>
                      ELSE <<>>)
    /\ pc' = "finish"
    /\ UNCHANGED <<cfgVars, iterVars, cur, typ, items, idx, fetched, owed,
                   prefixVars>>

\* Copy, line 164: recorder.Finish().
CopyFinish ==
    /\ pc = "finish"
    /\ log' = Append(log, RecFinish)
    /\ pc' = "return"
    /\ UNCHANGED <<cfgVars, iterVars, cur, typ, items, idx, fetched, owed,
                   prefixVars>>

\* Mutant: iter.Close() is called at the end of Copy instead of deferred, so
\* a panic skips it.
CopyCloseNotDeferred ==
    /\ pc \in {"return", "unwind"}
    /\ \E cerr \in CloseReplies(srcKind) :
         log' = IF pc = "unwind" THEN log
                ELSE log \o <<Ev("iter.Close", "", "", "", 0, "", cerr)>>
                         \o (IF cerr # Nil
                             THEN <<RecError("close source iterator failed", cerr, "", "", "")>>
                             ELSE <<>>)
    /\ pc' = IF pc = "return" THEN "done" ELSE "panicked"
    /\ UNCHANGED <<cfgVars, iterVars, cur, typ, items, idx, fetched, owed,
                   prefixVars>>

\* Copy, lines 68-73: the deferred iter.Close(), run as Copy returns or as
\* a panic unwinds it.
CopyDeferredClose ==
    /\ pc \in {"return", "unwind"}
    /\ \E cerr \in CloseReplies(srcKind) :
         log' = log \o <<Ev("iter.Close", "", "", "", 0, "", cerr)>>
                    \o (IF cerr # Nil
                        THEN <<RecError("close source iterator failed", cerr, "", "", "")>>
                        ELSE <<>>)
    /\ pc' = IF pc = "return" THEN "done" ELSE "panicked"
    /\ UNCHANGED <<cfgVars, iterVars, cur, typ, items, idx, fetched, owed,
                   prefixVars>>

\* The filter configurations Copy is run under: none, an exclude alone, an
\* include alone, and both with a key matched by both.
CopyFilters ==
    {<<(<<>>), (<<>>)>>, <<(<<>>), <<{"a"}>>>>, <<(<<{"b"}>>), (<<>>)>>,
     <<(<<{"a", "b"}>>), <<{"a"}>>>>}

ServerIterator0 ==
    [err |-> Nil, cursor |-> 0, finished |-> FALSE, keys |-> <<>>, idx |-> 0]

Init ==
    /\ srcKind \in {"kv", "server"}
    /\ \E f \in CopyFilters : includes = f[1] /\ excludes = f[2]
    /\ recorder \in Recorders
    /\ kvErr = Nil
    /\ rowsRead = 0
    /\ ss = ServerIterator0
    /\ scans = 0
    /\ pc = "next"
    /\ cur = NoKey
    /\ typ = ""
    /\ items = <<>>
    /\ idx = 0
    /\ fetched = <<>>
    /\ log = <<>>
    /\ owed = 0
    /\ parsed = <<>>
    /\ storeErrs = <<>>
    /\ pd = ""
    /\ pdRet = Nil

Next ==
    \/ CopyNext
    \/ CopyType
    \/ CopySwitch
    \/ CopyItem
    \/ CopyIterError
    \/ CopyFinish
    \/ CopyDeferredClose

Spec == Init /\ [][Next]_vars

\* Copy over the generic-store adapter, run to its end: Copy is a single
\* goroutine with no blocking call of its own, so a step that can be taken is
\* taken.  The raw store holds at most MaxRows rows.
InitLive == Init /\ srcKind = "kv"
SpecLive == InitLive /\ [][Next]_vars /\ WF_vars(Next)

(* --------------- the key filter's Type() on its own -------------------- *)
\* The handles an iterator can return for the configured source.
Handles(kind, filt) ==
    IF kind = "kv"
    THEN {SourceKey("kv", it.Key, it, filt) : it \in ParsedItems}
    ELSE {SourceKey("server", k, ZeroItem, filt) : k \in Keys}

\* Every filter configuration of up to MaxPats patterns a side, and every
\* handle: Copy is about to call key.Type().
InitFilter ==
    /\ srcKind \in {"kv", "server"}
    /\ includes \in SeqsUpTo(Patterns, MaxPats)
    /\ excludes \in SeqsUpTo(Patterns, MaxPats)
    /\ cur \in Handles(srcKind, Filtered(includes, excludes))
    /\ recorder = "std"
    /\ pc = "type"
    /\ kvErr = Nil
    /\ rowsRead = 0
    /\ ss = ServerIterator0
    /\ scans = 0
    /\ typ = ""
    /\ items = <<>>
    /\ idx = 0
    /\ fetched = <<>>
    /\ log = <<>>
    /\ owed = 0
    /\ parsed = <<>>
    /\ storeErrs = <<>>
    /\ pd = ""
    /\ pdRet = Nil

SpecFilter == InitFilter /\ [][CopyType]_vars

(* ---------------- the source iterators on their own -------------------- *)
\* A caller of the SourceKeyIterator interface other than Copy: it may call
\* Next() and Error() in any order, also after Next() has returned no key.
\* The log holds the calls of the latest Next() or Error().
CallNext ==
    /\ pc = "iterator"
    /\ \E sr \in IF srcKind = "kv" THEN StoreReplies(rowsRead) ELSE {NoStoreReply},
          pr \in IF srcKind = "kv" THEN ParseReplies ELSE {NoParseReply},
          sc \in IF srcKind = "kv" THEN {NoScanReply} ELSE ScanReplies(scans) :
         LET r == SourceIteratorNext(srcKind, Filtered(includes, excludes),
                                     kvErr, ss, sr, pr, sc) IN
         /\ IteratorStep(r, sr, sc)
         /\ log' = NextCalls(r, sr, pr, sc)
         /\ cur' = r.key
    /\ fetched' = <<>>
    /\ UNCHANGED <<cfgVars, pc, typ, items, idx, owed, prefixVars>>

CallError ==
    /\ pc = "iterator"
    /\ log' = <<Ev("iter.Error", "", "", "", 0, "",
                   SourceIteratorError(srcKind, kvErr, ss))>>
    /\ UNCHANGED <<cfgVars, iterVars, pc, cur, typ, items, idx, fetched, owed,
                   prefixVars>>

\* The caller calls one accessor of the source, of any type, on the handle
\* the latest Next() returned.
CallFetch ==
    /\ pc = "iterator"
    /\ cur # NoKey
    /\ \E t \in ValueTypes :
         \E reply \in FetchReplies(t) :
            LET f == SourceFetch(srcKind, cur, t, reply) IN
            /\ log' = <<Ev("Fetch", cur.key, "", "", Len(f.items), t, f.err)>>
            /\ fetched' = f.items
    /\ UNCHANGED <<cfgVars, iterVars, pc, cur, typ, items, idx, owed,
                   prefixVars>>

InitIter ==
    /\ srcKind \in {"kv", "server"}
    /\ \E f \in CopyFilters : includes = f[1] /\ excludes = f[2]
    /\ recorder \in Recorders
    /\ pc \in {"iterator", "next"}
    /\ kvErr = Nil
    /\ rowsRead = 0
    /\ ss = ServerIterator0
    /\ scans = 0
    /\ cur = NoKey
    /\ typ = ""
    /\ items = <<>>
    /\ idx = 0
    /\ fetched = <<>>
    /\ log = <<>>
    /\ owed = 0
    /\ parsed = <<>>
    /\ storeErrs = <<>>
    /\ pd = ""
    /\ pdRet = Nil

\* The iterators under either caller: Copy, or the free caller above.
NextIter ==
    \/ CallNext
    \/ CallError
    \/ Next

SpecIter == InitIter /\ [][NextIter]_vars

\* The adapter under a caller that takes handles from Next() and calls the
\* accessors on them; behind the key filter the handles are the filter's.
InitAccessors ==
    /\ srcKind = "kv"
    /\ \E f \in CopyFilters : includes = f[1] /\ excludes = f[2]
    /\ recorder = "std"
    /\ pc = "iterator"
    /\ kvErr = Nil
    /\ rowsRead = 0
    /\ ss = ServerIterator0
    /\ scans = 0
    /\ cur = NoKey
    /\ typ = ""
    /\ items = <<>>
    /\ idx = 0
    /\ fetched = <<>>
    /\ log = <<>>
    /\ owed = 0
    /\ parsed = <<>>
    /\ storeErrs = <<>>
    /\ pd = ""
    /\ pdRet = Nil

NextAccessors ==
    \/ CallNext
    \/ CallFetch

SpecAccessors == InitAccessors /\ [][NextAccessors]_vars

(* ------------------- destination.go: prefixedDestination --------------- *)
Prefixes == {"ns:", "p"}
ErrInvalidPrefix == "invalid store prefix"

\* Mutant: the prefix is appended instead of prepended.
prefixedKeyAppended(prefix, k) == k \o prefix

\* prefixedDestination.prefixedKey
prefixedKey(prefix, k) == prefix \o k

\* prefixedDestination.Set / HSet / SAdd / ZAdd / LPush: the call made on
\* the inner destination, whose answer `reply` is returned.
prefixedDestinationSet(prefix, k, v, reply) ==
    [inner |-> Ev("Set", prefixedKey(prefix, k), "", v, 0, "", reply),
     ret |-> reply]
prefixedDestinationHSet(prefix, h, k, v, reply) ==
    [inner |-> Ev("HSet", prefixedKey(prefix, h), k, v, 0, "", reply),
     ret |-> reply]
prefixedDestinationSAdd(prefix, s, k, reply) ==
    [inner |-> Ev("SAdd", prefixedKey(prefix, s), k, "", 0, "", reply),
     ret |-> reply]
prefixedDestinationZAdd(prefix, z, k, s, reply) ==
    [inner |-> Ev("ZAdd", prefixedKey(prefix, z), k, "", s, "", reply),
     ret |-> reply]
prefixedDestinationLPush(prefix, l, k, reply) ==
    [inner |-> Ev("LPush", prefixedKey(prefix, l), k, "", 0, "", reply),
     ret |-> reply]
\* prefixedDestination.Close
prefixedDestinationClose(reply) ==
    [inner |-> Ev("Close", "", "", "", 0, "", reply), ret |-> reply]

\* Mutant: the empty prefix is accepted.
NewPrefixedDestinationAcceptsEmpty(prefix) ==
    [made |-> TRUE, prefix |-> prefix, err |-> Nil]

\* NewPrefixedDestination: what it returns (made: a destination is
\* returned; prefix: its prefix field; err: the error).
NewPrefixedDestinationReturn(prefix) ==
    IF prefix = ""
    THEN [made |-> FALSE, prefix |-> "", err |-> ErrInvalidPrefix]
    ELSE [made |-> TRUE, prefix |-> prefix, err |-> Nil]

\* A call of NewPrefixedDestination: the log holds the call and every call
\* it makes on the inner destination (none).
NewPrefixedDestination ==
    /\ pc = "prefixed"
    /\ pd = ""
    /\ \E prefix \in Prefixes \cup {""} :
         LET r == NewPrefixedDestinationReturn(prefix) IN
         /\ log' = <<Ev("call.New", prefix, "", "", 0, "", r.err)>>
         /\ pd' = IF r.made THEN r.prefix ELSE ""
         /\ pdRet' = r.err
    /\ UNCHANGED <<cfgVars, iterVars, pc, cur, typ, items, idx, fetched, owed>>

\* One call on the prefixed destination: the call as made by the caller,
\* then the call it makes on the inner destination.
PrefixedCall(outer, r) ==
    /\ log' = <<outer, r.inner>>
    /\ pdRet' = r.ret
    /\ UNCHANGED <<cfgVars, iterVars, pc, cur, typ, items, idx, fetched, owed, pd>>

Scores == {1, 2}
PrefixedSet ==
    /\ pc = "prefixed" /\ pd # ""
    /\ \E k \in Keys, v \in Vals, reply \in DstReplies :
         PrefixedCall(Ev("call.Set", k, "", v, 0, "", Nil),
                      prefixedDestinationSet(pd, k, v, reply))
PrefixedHSet ==
    /\ pc = "prefixed" /\ pd # ""
    /\ \E h \in Keys, k \in {"f", "g"}, v \in Vals, reply \in DstReplies :
         PrefixedCall(Ev("call.HSet", h, k, v, 0, "", Nil),
                      prefixedDestinationHSet(pd, h, k, v, reply))
PrefixedSAdd ==
    /\ pc = "prefixed" /\ pd # ""
    /\ \E s \in Keys, k \in Vals, reply \in DstReplies :
         PrefixedCall(Ev("call.SAdd", s, k, "", 0, "", Nil),
                      prefixedDestinationSAdd(pd, s, k, reply))
PrefixedZAdd ==
    /\ pc = "prefixed" /\ pd # ""
    /\ \E z \in Keys, k \in Vals, s \in Scores, reply \in DstReplies :
         PrefixedCall(Ev("call.ZAdd", z, k, "", s, "", Nil),
                      prefixedDestinationZAdd(pd, z, k, s, reply))
PrefixedLPush ==
    /\ pc = "prefixed" /\ pd # ""
    /\ \E l \in Keys, k \in Vals, reply \in DstReplies :
         PrefixedCall(Ev("call.LPush", l, k, "", 0, "", Nil),
                      prefixedDestinationLPush(pd, l, k, reply))
PrefixedClose ==
    /\ pc = "prefixed" /\ pd # ""
    /\ \E reply \in DstReplies :
         PrefixedCall(Ev("call.Close", "", "", "", 0, "", Nil),
                      prefixedDestinationClose(reply))

InitPrefixed ==
    /\ srcKind = "kv"
    /\ includes = <<>>
    /\ excludes = <<>>
    /\ recorder = "std"
    /\ pc = "prefixed"
    /\ kvErr = Nil
    /\ rowsRead = 0
    /\ ss = ServerIterator0
    /\ scans = 0
    /\ cur = NoKey
    /\ typ = ""
    /\ items = <<>>
    /\ idx = 0
    /\ fetched = <<>>
    /\ log = <<>>
    /\ owed = 0
    /\ parsed = <<>>
    /\ storeErrs = <<>>
    /\ pd = ""
    /\ pdRet = Nil

NextPrefixed ==
    \/ NewPrefixedDestination
    \/ PrefixedSet
    \/ PrefixedHSet
    \/ PrefixedSAdd
    \/ PrefixedZAdd
    \/ PrefixedLPush
    \/ PrefixedClose

SpecPrefixed == InitPrefixed /\ [][NextPrefixed]_vars

(* ------------------------------ the claims ----------------------------- *)
RecorderOps == {"Error", "Key", "Finish"}
WriteOps == {"Set", "HSet", "LPush", "SAdd", "ZAdd"}
Sel(l, ops) == SelectSeq(l, LAMBDA e : e.op \in ops)
Count(l, ops) == Len(Sel(l, ops))
Failed(l, ops) == SelectSeq(l, LAMBDA e : e.op \in ops /\ e.err # Nil)
Last(l) == l[Len(l)]

\* C1: in every run of Copy the recorder's Finish is called exactly once,
\* and no other recorder call (Error or Key) is made after it.
C1_FinishOnceAndLast ==
    LET rc == Sel(log, RecorderOps) IN
    /\ pc \in {"next", "type", "switch", "items", "itererr", "finish"}
          => Count(log, {"Finish"}) = 0
    /\ pc \in {"return", "done"}
          => Count(log, {"Finish"}) = 1 /\ Last(rc).op = "Finish"

\* The type the key of the current loop iteration resolved to: what the
\* last Type() call of the iteration returned.
Resolved(l) == Last(Sel(l, {"key.Type", "filter.Type"}))
HasResolved(l) == Count(l, {"key.Type", "filter.Type"}) > 0
ResolvedSkip ==
    /\ HasResolved(log)
    /\ Resolved(log).err = Nil
    /\ Resolved(log).typ = SourceKeyTypeSkip

\* C2: for a key whose resolved type is Skip, Copy makes no recorder call,
\* no source fetch and no destination write, and goes on to the next key.
C2_SkipIsSilent ==
    ResolvedSkip =>
        /\ pc \in {"switch", "next"}
        /\ Count(log, RecorderOps \cup WriteOps \cup {"Fetch"}) = 0
        /\ owed = 0

\* C2 witness: a key the filter turned into Skip has been passed over.
C2_Witness ==
    /\ ResolvedSkip
    /\ pc = "next"
    /\ cur.wrapped
    /\ Resolved(log).op = "filter.Type"
    /\ Resolved(log).key \in Keys

\* The write the claim expects for a fetched item of a key of type t.
ExpectedWrite(t, k, it) ==
    CASE t = "string" -> Ev("Set", k, it.field, it.value, it.score, "", Nil)
      [] t = "hash" -> Ev("HSet", k, it.field, it.value, it.score, "", Nil)
      [] t = "list" -> Ev("LPush", k, it.field, it.value, it.score, "", Nil)
      [] t = "set" -> Ev("SAdd", k, it.field, it.value, it.score, "", Nil)
      [] t = "zset" -> Ev("ZAdd", k, it.field, it.value, it.score, "", Nil)
FetchedOK(l) == Count(l, {"Fetch"}) = 1 /\ Failed(l, {"Fetch"}) = <<>>
FetchEv(l) == Sel(l, {"Fetch"})[1]

\* C3: when no fetch and no write fails, the destination writes of a key
\* are, in order, one write of the matching operation per fetched item,
\* with the key and the item's payload, none duplicated and none omitted.
C3_WritesMatchFetched ==
    (pc = "next" /\ FetchedOK(log) /\ Failed(log, WriteOps) = <<>>) =>
        /\ Sel(log, WriteOps) =
             [i \in 1..Len(fetched) |->
                ExpectedWrite(FetchEv(log).typ, FetchEv(log).key, fetched[i])]
        /\ FetchEv(log).key = cur.key

\* C3 witness: a list key with two different items has been copied.
C3_Witness ==
    /\ pc = "next"
    /\ FetchedOK(log)
    /\ Failed(log, WriteOps) = <<>>
    /\ FetchEv(log).typ = "list"
    /\ Len(fetched) = 2
    /\ fetched[1] # fetched[2]
    /\ Count(log, WriteOps) = 2

\* C4: for a wrapped key whose underlying type resolves without error to a
\* non-Skip type, a match of any exclude pattern makes Type() report Skip,
\* whether or not an include pattern matches too.
C4_ExcludeWins ==
    \A i \in DOMAIN log :
        (/\ log[i].op = "filter.Type"
         /\ log[i - 1].err = Nil
         /\ log[i - 1].typ # SourceKeyTypeSkip
         /\ \E j \in DOMAIN excludes : MatchString(excludes[j], log[i].key))
        => (log[i].typ = SourceKeyTypeSkip /\ log[i].err = Nil)

\* C4 witness: a key of a value type matching an include and an exclude
\* pattern has been resolved to Skip by the filter.
C4_Witness ==
    /\ Len(log) = 2
    /\ log[2].op = "filter.Type"
    /\ log[1].typ \in ValueTypes
    /\ \E j \in DOMAIN excludes : MatchString(excludes[j], log[2].key)
    /\ \E j \in DOMAIN includes : MatchString(includes[j], log[2].key)
    /\ log[2].typ = SourceKeyTypeSkip

\* The decision rule of the filter, as the claim states it.
FilterRule(inc, exc, key, under) ==
    IF under.err # Nil \/ under.typ = SourceKeyTypeSkip
    THEN [typ |-> under.typ, err |-> under.err]
    ELSE IF \E j \in DOMAIN exc : MatchString(exc[j], key)
    THEN [typ |-> SourceKeyTypeSkip, err |-> Nil]
    ELSE IF inc # <<>> /\ ~(\E j \in DOMAIN inc : MatchString(inc[j], key))
    THEN [typ |-> SourceKeyTypeSkip, err |-> Nil]
    ELSE [typ |-> under.typ, err |-> Nil]

\* C5: the filter's Type() equals the decision rule for every key and every
\* include/exclude configuration: an underlying error or Skip passes through;
\* else Skip if an exclude matches; else, with includes configured, Skip when
\* none matches and the real type when one does; else the real type.
C5_FilterDecisionRule ==
    \A i \in DOMAIN log :
        log[i].op = "filter.Type" =>
            [typ |-> log[i].typ, err |-> log[i].err]
              = FilterRule(includes, excludes, log[i].key,
                           [typ |-> log[i - 1].typ, err |-> log[i - 1].err])

\* C5 witness: includes are configured, none matches the key, no exclude
\* matches it either, and the filter has reported Skip for a value type.
C5_Witness ==
    /\ Len(log) = 2
    /\ log[2].op = "filter.Type"
    /\ log[1].typ \in ValueTypes
    /\ includes # <<>>
    /\ ~(\E j \in DOMAIN includes : MatchString(includes[j], log[2].key))
    /\ ~(\E j \in DOMAIN excludes : MatchString(excludes[j], log[2].key))
    /\ log[2].typ = SourceKeyTypeSkip

\* The write a parsed Key Value Item calls for.
WriteOfItem(it) ==
    CASE it.Type = "string" -> Ev("Set", it.Key, "", it.StringValue, 0, "", Nil)
      [] it.Type = "hash" ->
           Ev("HSet", it.Key, it.HashField, it.HashFieldValue, 0, "", Nil)
      [] it.Type = "list" -> Ev("LPush", it.Key, it.ListItem, "", 0, "", Nil)
      [] it.Type = "set" -> Ev("SAdd", it.Key, it.SetMember, "", 0, "", Nil)
      [] OTHER -> Ev("ZAdd", it.Key, it.ZSetMember, "", it.ZSetScore, "", Nil)
Attempted(l) == [i \in DOMAIN Sel(l, WriteOps) |-> [Sel(l, WriteOps)[i] EXCEPT !.err = Nil]]

\* C6: Copy over the key filter wrapping the generic-store adapter writes
\* every key that is not skipped with exactly the value(s) parsed from its
\* raw row, as Copy over the adapter alone does.
C6_FilterKeepsValues ==
    (/\ srcKind = "kv"
     /\ Filtered(includes, excludes)
     /\ pc = "next"
     /\ Count(log, WriteOps) > 0)
    => Attempted(log) = <<WriteOfItem(cur.item)>>

\* C7: no failure aborts Copy: Copy leaves its loop only when the iterator
\* yields no key; every failure (next, type resolution, fetch, write) is
\* reported by one recorder error; and every item fetched for a key gets its
\* write attempt, whichever earlier writes failed.
C7_NoFailureAborts ==
    /\ pc \in {"itererr", "finish", "return", "done"} =>
          LET n == Sel(log, {"iter.Next"}) IN
          Len(n) = 1 /\ n[1].value = "nil" /\ n[1].err = Nil
    /\ (pc = "next" /\ log # <<>>) =>
          /\ Count(log, {"Error"}) =
                Len(Failed(log, {"iter.Next", "Fetch"} \cup WriteOps))
                + (IF HasResolved(log) /\ Resolved(log).err # Nil THEN 1 ELSE 0)
                + (IF HasResolved(log) /\ Resolved(log).err = Nil
                      /\ Resolved(log).typ \notin ValueTypes \cup {SourceKeyTypeSkip}
                   THEN 1 ELSE 0)
          /\ Sel(log, {"iter.Next"})[1].value # "nil" => HasResolved(log)
          /\ FetchedOK(log) =>
                Attempted(log) =
                  [i \in 1..Len(fetched) |->
                     ExpectedWrite(FetchEv(log).typ, FetchEv(log).key, fetched[i])]
          /\ owed = 0

\* C7 witness: the first of two writes of a key failed, one error was
\* reported and the second write was attempted.
C7_Witness ==
    /\ pc = "next"
    /\ FetchedOK(log)
    /\ Len(fetched) = 2
    /\ Count(log, WriteOps) = 2
    /\ Sel(log, WriteOps)[1].err # Nil
    /\ Sel(log, WriteOps)[2].err = Nil
    /\ Count(log, {"Error"}) = 1

\* C8: once the underlying store has signalled a read error, the iterator
\* yields no further key: that Next() and every later one return no key and
\* no error, the store is not read again, Error() returns the first store
\* error, and no destination write is issued.
C8_StoreErrorLatched ==
    storeErrs # <<>> =>
        /\ Len(storeErrs) = 1
        /\ \A i \in DOMAIN log :
             /\ log[i].op \in {"store.Next", "Scan"} => log[i].err = storeErrs[1]
             /\ log[i].op = "iter.Next" => log[i].value = "nil" /\ log[i].err = Nil
             /\ log[i].op = "iter.Error" => log[i].err = storeErrs[1]
             /\ log[i].op \notin WriteOps \cup {"Parse", "Fetch", "Key"}

\* C8 witness: after a row was read and the store then failed, a later
\* Next() has returned no key without reading the store.
C8_Witness ==
    /\ pc = "iterator"
    /\ srcKind = "kv"
    /\ storeErrs # <<>>
    /\ rowsRead >= 1
    /\ Len(log) = 1
    /\ log[1].op = "iter.Next"

\* C9: when the parser fails on a raw row, the writes of the earlier rows
\* have been issued, the failure is reported to the recorder exactly once,
\* no destination write is issued for the row, and no row is handed to the
\* parser twice.
C9_ParseFailure ==
    /\ \A i, j \in DOMAIN parsed : parsed[i] = parsed[j] => i = j
    /\ Failed(log, {"Parse"}) # <<>> =>
          /\ owed = 0
          /\ Len(Sel(log, RecorderOps)) = 1
          /\ Sel(log, RecorderOps)[1].op = "Error"
          /\ Sel(log, RecorderOps)[1].err = Failed(log, {"Parse"})[1].err
          /\ Count(log, WriteOps \cup {"Fetch", "key.Type"}) = 0
          /\ Last(parsed) = Failed(log, {"Parse"})[1].score
          /\ Count(log, {"Parse"}) = 1

\* C9 witness: the third raw row failed to parse after the first two were
\* handed to the parser.
C9_Witness ==
    /\ Failed(log, {"Parse"}) # <<>>
    /\ parsed = <<1, 2, 3>>
    /\ pc = "next"

\* C10: every write on the prefixed destination makes exactly one call of
\* the same operation on the inner destination, with the name prefixed, every
\* other argument unchanged and the inner result returned; Close is forwarded
\* unchanged.
C10_PrefixedForwards ==
    (log # <<>> /\ log[1].op # "call.New") =>
        /\ Len(log) = 2
        /\ log[1].op = "call." \o log[2].op
        /\ log[2].key = (IF log[2].op = "Close" THEN "" ELSE pd \o log[1].key)
        /\ log[2].field = log[1].field
        /\ log[2].value = log[1].value
        /\ log[2].score = log[1].score
        /\ pdRet = log[2].err

\* C10 witness: a failing SAdd has gone through the prefix "ns:".
C10_Witness ==
    /\ Len(log) = 2
    /\ pd = "ns:"
    /\ log[1] = Ev("call.SAdd", "a", "x", "", 0, "", Nil)
    /\ log[2] = Ev("SAdd", "ns:a", "x", "", 0, "", "e1")
    /\ pdRet = "e1"

\* C11: NewPrefixedDestination fails, returning the error and no
\* destination, exactly when the prefix is the empty string; for a non-empty
\* prefix it returns a destination with that prefix and no error, and makes
\* no call on the inner destination.
C11_NewPrefixedDestination ==
    (log # <<>> /\ log[1].op = "call.New") =>
        /\ Len(log) = 1
        /\ (pdRet # Nil) <=> (log[1].key = "")
        /\ log[1].key = "" => pdRet = ErrInvalidPrefix /\ pd = ""
        /\ log[1].key # "" => pdRet = Nil /\ pd = log[1].key

\* C11 witness: the constructor has refused the empty prefix.
C11_Witness ==
    /\ log = <<Ev("call.New", "", "", "", 0, "", ErrInvalidPrefix)>>
    /\ pd = ""
    /\ pdRet = ErrInvalidPrefix

\* The positions of the calls of the given operations in a log.
Positions(l, ops) == {i \in DOMAIN l : l[i].op \in ops}
CloseReports(l) ==
    SelectSeq(l, LAMBDA e : e.op = "Error" /\ e.value = "close source iterator failed")
Returned == pc \in {"done", "panicked"}

\* C12: every run of Copy closes the source iterator exactly once, after the
\* last Next() call, on every path out of Copy (a normal return or a panic);
\* a failed close is reported to the recorder by exactly one close-failure
\* error, a successful one by none.
C12_ClosedOnceOnEveryPath ==
    LET closes == Sel(log, {"iter.Close"}) IN
    /\ Returned =>
          /\ Len(closes) = 1
          /\ \A i \in Positions(log, {"iter.Close"}) :
               \A j \in Positions(log, {"iter.Next", "store.Next", "Scan"}) : j < i
          /\ Len(CloseReports(log)) = (IF closes[1].err # Nil THEN 1 ELSE 0)
          /\ CloseReports(log) # <<>> =>
                /\ CloseReports(log)[1].err = closes[1].err
                /\ Last(log) = CloseReports(log)[1]
    /\ ~Returned =>
          /\ closes = <<>>
          /\ CloseReports(log) = <<>>
          /\ ENABLED Next

\* C12 witness: Copy has left by a panic, and the close made on the way out
\* failed and was reported.
C12_Witness ==
    /\ pc = "panicked"
    /\ Count(log, {"panic"}) = 1
    /\ Failed(log, {"iter.Close"}) # <<>>
    /\ Len(CloseReports(log)) = 1

ResolvedUnsupported ==
    /\ HasResolved(log)
    /\ Resolved(log).err = Nil
    /\ Resolved(log).typ \notin ValueTypes \cup {SourceKeyTypeSkip}
UnsupportedReports(l) ==
    SelectSeq(l, LAMBDA e : e.op = "Error" /\ e.value = "unsupported key type")

\* C13: when a key resolves without error to a type outside {Skip, String,
\* Hash, List, Set, ZSet}, Copy reports one error to the recorder for that
\* key, makes no fetch and no destination write for it, and goes on to the
\* next key (and so to Finish) instead of leaving by a panic; this with the
\* default line recorder as with any other.
C13_UnsupportedTypeReported ==
    /\ (ResolvedUnsupported /\ pc # "switch") =>
          /\ pc = "next"
          /\ Count(log, {"panic"}) = 0
          /\ Len(UnsupportedReports(log)) = 1
          /\ UnsupportedReports(log)[1].key = cur.key
          /\ Count(log, WriteOps \cup {"Fetch"}) = 0
    /\ pc \notin {"unwind", "panicked"}

\* C14 as claimed: for every key of a value type, a Key notification for the
\* key is issued before Copy fetches the key's value(s).
C14_KeyBeforeFetch ==
    \A j \in Positions(log, {"Fetch"}) :
        \E i \in Positions(log, {"Key"}) : i < j /\ log[i].key = log[j].key

\* C14 amended: Copy fetches the key's value(s) first; every Key
\* notification follows a successful fetch of the same key and stands
\* directly before a destination write of that key, there is one per fetched
\* item, and a key whose fetch fails or returns no item gets none.
C14_KeyAfterFetch ==
    /\ \A i \in Positions(log, {"Key"}) :
          /\ \E j \in Positions(log, {"Fetch"}) :
                j < i /\ log[j].err = Nil /\ log[j].key = log[i].key
          /\ i < Len(log)
          /\ log[i + 1].op \in WriteOps
          /\ log[i + 1].key = log[i].key
    /\ (Count(log, {"Fetch"}) = 1 /\ (~FetchedOK(log) \/ FetchEv(log).score = 0)) =>
          Count(log, {"Key"}) = 0
    /\ (pc = "next" /\ FetchedOK(log)) =>
          Count(log, {"Key"}) = FetchEv(log).score

\* C14 witness: a hash key was fetched and its item then announced and
\* written.
C14_Witness ==
    /\ pc = "next"
    /\ Len(log) >= 3
    /\ log[Len(log) - 2].op = "Fetch"
    /\ log[Len(log) - 2].typ = SourceKeyTypeHash
    /\ log[Len(log) - 1].op = "Key"
    /\ log[Len(log)].op = "HSet"

\* The recorder Key calls and the destination write attempts of a log, in
\* order.
KeysAndWrites(l) == Sel(l, WriteOps \cup {"Key"})
\* The sub-item a write is about, as Copy passes it to recorder.Key: none
\* for Set, else the field, list item or member.
SubItemOf(w) == IF w.op = "Set" THEN "" ELSE w.field

\* C15: the recorder Key calls of a key are as many as the destination
\* write attempts for it, and each Key(type, key, sub-item) call is directly
\* followed by the write attempt for that same key and sub-item.
C15_KeyPerWrite ==
    /\ Count(log, {"Key"}) = Count(log, WriteOps)
    /\ \A i \in Positions(log, {"Key"}) :
          /\ i < Len(log)
          /\ log[i + 1].op \in WriteOps
          /\ log[i + 1].op = DestinationOp(log[i].typ)
          /\ log[i + 1].key = log[i].key
          /\ SubItemOf(log[i + 1]) = log[i].field
    /\ \A i \in Positions(log, WriteOps) : i > 1 /\ log[i - 1].op = "Key"

\* C15 witness (Scenario B): a ZSet with two members gave two Key calls and
\* two ZAdd calls, alternating.
C15_Witness ==
    /\ pc = "next"
    /\ Len(fetched) = 2
    /\ fetched[1].field # fetched[2].field
    /\ KeysAndWrites(log) =
         <<RecKey(SourceKeyTypeZSet, cur.key, fetched[1].field),
           Ev("ZAdd", cur.key, fetched[1].field, "", fetched[1].score, "", Nil),
           RecKey(SourceKeyTypeZSet, cur.key, fetched[2].field),
           Ev("ZAdd", cur.key, fetched[2].field, "", fetched[2].score, "", Nil)>>

RECURSIVE Reverse(_)
Reverse(s) == IF s = <<>> THEN <<>> ELSE Append(Reverse(Tail(s)), Head(s))

\* The list stored at key k of a head-inserting destination after the
\* LPush calls of a log, starting from the list `before`.
RECURSIVE ListAfter(_, _, _)
ListAfter(before, k, l) ==
    IF l = <<>> THEN before
    ELSE ListAfter(IF Head(l).op = "LPush" /\ Head(l).key = k
                   THEN serverDestinationLPush(before, Head(l).field, Head(l).err)
                   ELSE before,
                   k, Tail(l))
ListsBefore == {<<>>, <<"o">>}
FetchedList(l) ==
    /\ pc = "next"
    /\ FetchedOK(l)
    /\ FetchEv(l).typ = SourceKeyTypeList
PushedItems(l) == [i \in DOMAIN Sel(l, {"LPush"}) |-> Sel(l, {"LPush"})[i].field]
FetchedItems == [i \in DOMAIN fetched |-> fetched[i].field]

C17_NoRetry ==
    /\ Count(log, {"iter.Next"}) <= 1
    /\ Count(log, {"key.Type"}) <= 1
    /\ Count(log, {"filter.Type"}) <= 1
    /\ Count(log, {"Fetch"}) <= 1
    /\ ~FetchedOK(log) => Count(log, WriteOps) = 0
    /\ FetchedOK(log) =>
          /\ Count(log, WriteOps) <= Len(fetched)
          /\ \A i \in DOMAIN Attempted(log) :
               Attempted(log)[i] =
                 ExpectedWrite(FetchEv(log).typ, FetchEv(log).key, fetched[i])

\* C17 witness: both writes of a two-item key failed and Copy went on to
\* the next key after two attempts.
C17_Witness ==
    /\ pc = "next"
    /\ FetchedOK(log)
    /\ Len(fetched) = 2
    /\ Len(Failed(log, WriteOps)) = 2
    /\ Count(log, WriteOps) = 2
    /\ Count(log, {"key.Type"}) = 1

IteratorReports(l) ==
    SelectSeq(l, LAMBDA e : e.op = "Error" /\ e.value = "iterator errors")
Exhausted == pc \in {"finish", "return", "done"}

\* C18: once the iterator is exhausted Copy reads its terminal error once;
\* if it is set, exactly one "iterator errors" report carrying it is made,
\* directly after the read, after every per-key recorder call and before
\* Finish; if it is not set, no such report is made; and none is made
\* before the iterator is exhausted.
C18_TerminalErrorReportedOnce ==
    /\ Exhausted =>
          /\ Count(log, {"iter.Error"}) = 1
          /\ \A i \in Positions(log, {"iter.Error"}) :
               /\ \A j \in Positions(log, {"iter.Next"}) : j < i
               /\ \A j \in Positions(log, {"Finish", "iter.Close"}) : i < j
               /\ IF log[i].err = Nil
                  THEN IteratorReports(log) = <<>>
                  ELSE /\ Len(IteratorReports(log)) = 1
                       /\ Len(log) > i
                       /\ log[i + 1] = IteratorReports(log)[1]
                       /\ log[i + 1].err = log[i].err
               /\ \A j \in 1..i : log[j].op \notin RecorderOps
          /\ \A j \in Positions(log, {"Key"}) : FALSE
    /\ ~Exhausted =>
          /\ Count(log, {"iter.Error"}) = 0
          /\ IteratorReports(log) = <<>>

\* C18 witness: after a key was copied the store failed, and Copy has
\* reported the latched error and called Finish.
C18_Witness ==
    /\ pc = "return"
    /\ parsed # <<>>
    /\ Len(IteratorReports(log)) = 1
    /\ IteratorReports(log)[1].err = Last(storeErrs)
    /\ Last(log) = RecFinish

ParseFailed(l) == Failed(l, {"Parse"}) # <<>>
\* A Next() call that follows a failed parse reads the row after the one
\* that failed (or finds the end of the store there).
NextReadsOn ==
    (ParseFailed(log) /\ Count(log', {"iter.Next"}) = 1 /\ log' # log) =>
        /\ Count(log', {"store.Next"}) = 1
        /\ log'[1].op = "store.Next"
        /\ log'[1].score = Failed(log, {"Parse"})[1].score + 1

\* C19: a parse error is not latched: the Next() call in which a raw row
\* fails to parse returns that error and no key, the iterator's Error() stays
\* unset, and the following Next() call reads the next raw row of the store.
C19_ParseErrorNotLatched ==
    /\ [](ParseFailed(log) =>
             /\ Sel(log, {"iter.Next"})[1].err = Failed(log, {"Parse"})[1].err
             /\ Sel(log, {"iter.Next"})[1].value = "nil"
             /\ kvErr = Nil
             /\ keyValueIteratorError(kvErr) = Nil
             /\ storeErrs = <<>>)
    /\ [][NextReadsOn]_vars

\* C19 witness: a caller's Next() has failed on the second raw row, after
\* the first one was returned as a key.
C19_Witness ==
    /\ pc = "iterator"
    /\ ParseFailed(log)
    /\ parsed = <<1, 2>>
    /\ Sel(log, {"iter.Next"})[1].err = "parse"
    /\ kvErr = Nil

\* What the accessor of type t is to return for a parsed item.
AccessorResult(it, t) ==
    CASE t = SourceKeyTypeString -> [field |-> "", value |-> it.StringValue, score |-> 0]
      [] t = SourceKeyTypeHash ->
           [field |-> it.HashField, value |-> it.HashFieldValue, score |-> 0]
      [] t = SourceKeyTypeList -> [field |-> it.ListItem, value |-> "", score |-> 0]
      [] t = SourceKeyTypeSet -> [field |-> it.SetMember, value |-> "", score |-> 0]
      [] t = SourceKeyTypeZSet ->
           [field |-> it.ZSetMember, value |-> "", score |-> it.ZSetScore]
AdapterHandle == srcKind = "kv" /\ cur.kind = "kv" /\ ~cur.wrapped
\* An accessor call on the adapter leaves the store and the iterator as
\* they were.
AccessorReadsNothing ==
    (srcKind = "kv" /\ log' # <<>> /\ log' # log /\ Last(log').op = "Fetch") =>
        /\ rowsRead' = rowsRead
        /\ parsed' = parsed
        /\ kvErr' = kvErr
        /\ storeErrs' = storeErrs
        /\ Count(log', {"store.Next", "Parse"}) = Count(log, {"store.Next", "Parse"})
           \/ Len(log') = 1

\* C20: on a key handle returned by the adapter's Next(), each accessor
\* (Get, HItems, LItems, SMembers, ZMembers) returns no error and exactly
\* one element, equal to the field(s) of that type in the item parsed for
\* the handle, and the call reads nothing from the underlying store.
C20_AccessorsReturnParsedItem ==
    /\ []((AdapterHandle /\ Count(log, {"Fetch"}) = 1) =>
             /\ FetchEv(log).err = Nil
             /\ FetchEv(log).score = 1
             /\ fetched = <<AccessorResult(cur.item, FetchEv(log).typ)>>
             /\ cur.item \in ParsedItems
             /\ FetchEv(log).key = cur.item.Key)
    /\ [][AccessorReadsNothing]_vars

\* C20 witness: a caller has asked ZMembers of a handle parsed as a zset
\* and got its member and score.
C20_Witness ==
    /\ pc = "iterator"
    /\ AdapterHandle
    /\ cur.item.Type = SourceKeyTypeZSet
    /\ log = <<Ev("Fetch", cur.key, "", "", 1, SourceKeyTypeZSet, Nil)>>
    /\ fetched = <<[field |-> "y", value |-> "", score |-> 1]>>

\* Each Next() call of Copy's loop consumes one raw row or ends the
\* iteration.
NextConsumesOrEnds ==
    (pc = "next" /\ log' # log) =>
        \/ rowsRead' = rowsRead + 1 /\ pc' \in {"next", "type"}
        \/ rowsRead' = rowsRead /\ pc' = "itererr"

\* C21: Copy over the generic-store adapter terminates for every finite
\* sequence of raw rows, whatever rows fail to parse and whether or not the
\* store signals a read error: each Next() call consumes one raw row or ends
\* the iteration, and Copy eventually leaves its loop and returns having
\* called Finish and closed the iterator.
C21_CopyTerminates ==
    /\ <>Returned
    /\ [](Returned =>
             /\ pc = "done"
             /\ Count(log, {"Finish"}) = 1
             /\ Count(log, {"iter.Close"}) = 1)
    /\ [][NextConsumesOrEnds]_vars

\* One step of the live-server iterator: it hands out the next key of the
\* current page, or, with the current page handed out completely, scans and
\* starts the new page at its first key.
ServerIteratorInPageOrder ==
    (srcKind = "server" /\ ss' # ss) =>
        \/ /\ ss'.keys = ss.keys
           /\ ss'.idx = ss.idx + 1
           /\ ss'.idx <= Len(ss.keys)
        \/ /\ ss.idx = Len(ss.keys)
           /\ scans' = scans + 1
           /\ ss'.idx = (IF ss'.err = Nil /\ Len(ss'.keys) > 0 THEN 1 ELSE ss'.idx)

\* C22: the live-server iterator yields every key of every SCAN page exactly
\* once, in page order, and a Next() call returns no key only after the page
\* on which the server returned cursor 0 or after a failed scan; a page with
\* no keys and a non-zero cursor does not end the iteration.
C22_ServerIteratorComplete ==
    /\ []((srcKind = "server" /\ Count(log, {"iter.Next"}) = 1) =>
             IF Sel(log, {"iter.Next"})[1].value = "nil"
             THEN /\ ss.idx = Len(ss.keys)
                  /\ ss.err # Nil \/ (scans >= 1 /\ ss.cursor = 0)
             ELSE /\ ss.idx >= 1
                  /\ ss.idx <= Len(ss.keys)
                  /\ ss.keys[ss.idx] = Sel(log, {"iter.Next"})[1].key)
    /\ [][ServerIteratorInPageOrder]_vars

====
